---- MODULE Spec2Model ----
(***************************************************************************)
(* FinTrack dashboard: the search / filter / sort slice.                   *)
(*                                                                         *)
(*   SearchProvider   (src/src/contexts/SearchContext.tsx)                 *)
(*   TransactionsTable (src/src/components/ui/TransactionsTable.tsx)       *)
(*   Search, SortableHeader (src/unnamed/part_006)                         *)
(*   Tabs / TabsContent / TabsTrigger (Logo.tsx, part_007, TabsTrigger.tsx)*)
(*                                                                         *)
(* JavaScript strings are TLA+ strings; arrays are heap objects addressed  *)
(* by a reference, so that "the same array" and "a copy" are different.    *)
(***************************************************************************)
EXTENDS Integers, Sequences, FiniteSets, TLC

VARIABLES
    heap,                  \* reference -> array contents (live arrays only)
    searchQuery,           \* SearchProvider: useState('')
    filteredTransactions,  \* SearchProvider: useMemo value (a reference)
    filterDeps,            \* the [searchQuery] the memo was computed for
    isExpanded,            \* Search: useState(false)
    activeTab,             \* Tabs: useState(defaultValue)
    sortConfig,            \* TransactionsTable: useState({date, desc})
    sortedData,            \* TransactionsTable: useMemo value (a reference)
    sortDeps,              \* the [filteredTransactions, sortConfig] of the memo
    view,                  \* what TransactionsTable returned from its last render
    renderError,           \* the component whose render threw, or "none"
    hookCall,              \* the last call of a context hook: the hook and the
                           \* providers that enclose the calling component
    hookResult,            \* what that call returned or threw
    tracker_data,          \* the documented CLI: the tracker file's contents
    cliResult,             \* the documented CLI: the last command's CliResult
    terminal               \* AnimatedTerminal: its state, its ref and its runs

vars == << heap, searchQuery, filteredTransactions, filterDeps, isExpanded,
           activeTab, sortConfig, sortedData, sortDeps, view, renderError,
           hookCall, hookResult, tracker_data, cliResult, terminal >>

\* The state of the search-filter-sort application.
appVars == << heap, searchQuery, filteredTransactions, filterDeps, isExpanded,
              activeTab, sortConfig, sortedData, sortDeps, view, renderError >>

\* The state of a component that calls a context hook on its own.
hookVars == << hookCall, hookResult >>

\* The state of the command-line tool that docs/article.md builds.
cliVars == << tracker_data, cliResult >>

-----------------------------------------------------------------------------
(* Bounds *)

\* Longest transaction collection the model builds from the pool.
MaxLen == 3

-----------------------------------------------------------------------------
(* JavaScript strings *)

Char(s, i) == SubSeq(s, i, i)

UpperTable == "ABCDEFGHIJKLMNOPQRSTUVWXYZ"
LowerTable == "abcdefghijklmnopqrstuvwxyz"
DigitTable == "0123456789"

IndexIn(tbl, c) == CHOOSE i \in 1..Len(tbl) : Char(tbl, i) = c
InTable(tbl, c) == \E i \in 1..Len(tbl) : Char(tbl, i) = c

\* String.prototype.charCodeAt for a one-character string over the alphabet
\* of the model (space , - . / digits and the ASCII letters): its UTF-16
\* code unit.
charCodeAt(c) ==
    IF InTable(DigitTable, c) THEN 47 + IndexIn(DigitTable, c)
    ELSE IF InTable(UpperTable, c) THEN 64 + IndexIn(UpperTable, c)
    ELSE IF InTable(LowerTable, c) THEN 96 + IndexIn(LowerTable, c)
    ELSE IF c = " " THEN 32
    ELSE IF c = "," THEN 44
    ELSE IF c = "-" THEN 45
    ELSE IF c = "." THEN 46
    ELSE 47

toLowerChar(c) ==
    IF InTable(UpperTable, c) THEN Char(LowerTable, IndexIn(UpperTable, c)) ELSE c

\* String.prototype.toLowerCase
RECURSIVE toLowerCase(_)
toLowerCase(s) ==
    IF s = "" THEN ""
    ELSE toLowerChar(Char(s, 1)) \o toLowerCase(SubSeq(s, 2, Len(s)))

\* String.prototype.trim
RECURSIVE trimStart(_)
trimStart(s) ==
    IF s # "" /\ Char(s, 1) = " " THEN trimStart(SubSeq(s, 2, Len(s))) ELSE s

RECURSIVE trimEnd(_)
trimEnd(s) ==
    IF s # "" /\ Char(s, Len(s)) = " " THEN trimEnd(SubSeq(s, 1, Len(s) - 1)) ELSE s

trim(s) == trimEnd(trimStart(s))

\* String.prototype.includes: q occurs in s at some position.
includes(s, q) ==
    \E i \in 1..(Len(s) + 1 - Len(q)) : SubSeq(s, i, i + Len(q) - 1) = q

\* The relational operator < on two strings: code-unit lexicographic.
stringLess(a, b) ==
    LET n    == IF Len(a) < Len(b) THEN Len(a) ELSE Len(b)
        diff == { i \in 1..n : Char(a, i) # Char(b, i) }
    IN  IF diff = {} THEN Len(a) < Len(b)
        ELSE LET i == CHOOSE j \in diff : \A k \in diff : j <= k
             IN  charCodeAt(Char(a, i)) < charCodeAt(Char(b, i))

\* Number.prototype.toString for an integer.
RECURSIVE digitsOf(_)
digitsOf(n) ==
    IF n < 10 THEN Char(DigitTable, n + 1)
    ELSE digitsOf(n \div 10) \o Char(DigitTable, (n % 10) + 1)

numberToString(n) == IF n < 0 THEN "-" \o digitsOf(0 - n) ELSE digitsOf(n)

\* The numeric value of a string of decimal digits.
RECURSIVE digitsValue(_)
digitsValue(s) ==
    IF s = "" THEN 0
    ELSE 10 * digitsValue(SubSeq(s, 1, Len(s) - 1))
         + (IndexIn(DigitTable, Char(s, Len(s))) - 1)

-----------------------------------------------------------------------------
(* Date: parsing of the stored date string and the two formatted forms *)

MonthShort == << "Jan", "Feb", "Mar", "Apr", "May", "Jun",
                 "Jul", "Aug", "Sep", "Oct", "Nov", "Dec" >>

\* new Date(s) for a stored string of the shape NN-NN-NNNN.  The string is
\* not an ISO date, so the engine's fallback parser reads it; that parser
\* (V8, the runtime of the dashboard) takes the first number as the month and
\* the second as the day, in local time, and yields Invalid Date when the
\* month is not 1..12 or the day not 1..31.  Days of the pool stay below 29,
\* so no day carries into the next month.
dateParse(s) ==
    LET first  == digitsValue(SubSeq(s, 1, 2))
        second == digitsValue(SubSeq(s, 4, 5))
        year   == digitsValue(SubSeq(s, 7, 10))
    IN  [ valid |-> first \in 1..12 /\ second \in 1..31,
          year  |-> year, month |-> first, day |-> second ]

\* Date.prototype.toLocaleDateString() in the default (en-US) locale: M/D/YYYY.
toLocaleDateString(d) ==
    IF ~d.valid THEN "Invalid Date"
    ELSE numberToString(d.month) \o "/" \o numberToString(d.day) \o "/"
         \o numberToString(d.year)

\* toLocaleDateString('en-US', {month: 'short', day: 'numeric', year: 'numeric'})
toLocaleDateStringShort(d) ==
    IF ~d.valid THEN "Invalid Date"
    ELSE MonthShort[d.month] \o " " \o numberToString(d.day) \o ", "
         \o numberToString(d.year)

\* Fault variant of dateFormatThrows: a formatter that rejects an invalid
\* date with a RangeError (as Intl.DateTimeFormat.format and toISOString do).
dateFormatThrowsOnInvalid(d) == ~d.valid

\* Whether formatting the date d throws.  toLocaleDateString never does:
\* for an invalid date it returns the string "Invalid Date".
dateFormatThrows(d) == FALSE

-----------------------------------------------------------------------------
(* Transactions and the collection transactionsData *)

\* The transactions the collections are built from.  The first two are the
\* example collection; the others add ties on amount, currency and type, an
\* empty remark, mixed letter case, a pair of dates whose string order is
\* not their day-first calendar order, a date the engine cannot parse, and
\* amounts (7 and 100) whose numeric order is not their string order.
T1 == [ id |-> 1, date |-> "01-01-2025", remark |-> "Salary",
        amount |-> 100, currency |-> "USD", type |-> "Credit" ]
T2 == [ id |-> 2, date |-> "02-01-2025", remark |-> "Rent",
        amount |-> 0 - 50, currency |-> "USD", type |-> "Debit" ]
T3 == [ id |-> 3, date |-> "01-02-2025", remark |-> "",
        amount |-> 100, currency |-> "EUR", type |-> "Credit" ]
T4 == [ id |-> 4, date |-> "13-01-2025", remark |-> "rent",
        amount |-> 7, currency |-> "usd", type |-> "Debit" ]

Pool == { T1, T2, T3, T4 }

ExampleCollection == << T1, T2 >>

\* Every collection of at most MaxLen distinct transactions (ids are unique).
Collections ==
    { c \in UNION { [1..n -> Pool] : n \in 0..MaxLen } :
        \A i, j \in DOMAIN c : i # j => c[i] # c[j] }

\* What the user may have typed or pasted into the search input.
Queries == { "", " ", "re", "credit", " CREDIT ", "zzz", "-50", "jan" }

-----------------------------------------------------------------------------
(* The array heap *)

\* The module-level array exported by data/transactions.data.
DataRef == "transactionsData"

\* No array: the value of a slot whose component is not mounted.
NullRef == "null"

\* References for the arrays filter() returns and for the copies the
\* spread in sortedData makes.
FilterRefs == { "filtered1", "filtered2" }
SortRefs == { "sorted1", "sorted2" }

\* A reference of the pool that no live array has.
Alloc(pool, live) == CHOOSE r \in pool : r \notin live

Restrict(h, refs) == [ r \in (DOMAIN h) \cap refs |-> h[r] ]

-----------------------------------------------------------------------------
(* SearchProvider: filteredTransactions and isSearching *)

searchableFields(transaction) ==
    << toLowerCase(transaction.remark),
       toLowerCase(transaction.type),
       toLowerCase(transaction.currency),
       numberToString(transaction.amount),
       toLowerCase(toLocaleDateString(dateParse(transaction.date))),
       toLowerCase(toLocaleDateStringShort(dateParse(transaction.date))),
       transaction.date >>

\* Fault variant of matchesQuery: startsWith in place of includes.
matchesQueryStartsWith(transaction, query) ==
    LET fields == searchableFields(transaction)
    IN  \E i \in 1..Len(fields) :
            /\ Len(query) <= Len(fields[i])
            /\ SubSeq(fields[i], 1, Len(query)) = query

\* Whether building searchableFields throws.  toLowerCase, toString and
\* includes are total on the strings and numbers of a well-formed
\* transaction; the date formatting is the one step with an error outcome.
searchableFieldsThrow(transaction) ==
    dateFormatThrows(dateParse(transaction.date))

\* searchableFields.some((field) => field.includes(query))
matchesQuery(transaction, query) ==
    LET fields == searchableFields(transaction)
    IN  \E i \in 1..Len(fields) : includes(fields[i], query)

\* trim and toLowerCase of every query of the model, and the callback of
\* filter for every transaction of the pool, evaluated once.
TrimTable == [ q \in Queries |-> trim(q) ]

NormalizedTable == [ q \in Queries |-> trim(toLowerCase(q)) ]

MatchTable ==
    [ transaction \in Pool |->
        [ query \in { NormalizedTable[q] : q \in Queries } |->
            matchesQuery(transaction, query) ] ]

\* Fault variant of arrayFilter: the accepted elements are collected in
\* reverse order.
RECURSIVE arrayFilterReversed(_, _)
arrayFilterReversed(arr, query) ==
    IF arr = << >> THEN << >>
    ELSE LET rest == arrayFilterReversed(Tail(arr), query)
         IN  IF MatchTable[Head(arr)][query] THEN rest \o << Head(arr) >>
             ELSE rest

\* searchableFieldsThrow for every transaction of the pool, evaluated once.
ThrowTable == [ transaction \in Pool |-> searchableFieldsThrow(transaction) ]

\* Whether the useMemo callback of filteredTransactions throws: the filter
\* callback runs on every element, and only for a non-blank query.
filterMemoThrows(arr, q) ==
    TrimTable[q] # "" /\ \E i \in 1..Len(arr) : ThrowTable[arr[i]]

\* Array.prototype.filter: visits the elements in index order and appends
\* the ones the callback accepts to a new array.
RECURSIVE arrayFilter(_, _)
arrayFilter(arr, query) ==
    IF arr = << >> THEN << >>
    ELSE LET rest == arrayFilter(Tail(arr), query)
         IN  IF MatchTable[Head(arr)][query] THEN << Head(arr) >> \o rest
             ELSE rest

\* Fault variant of filterMemo: queries shorter than four characters do
\* not filter.
filterMemoMinLength(h, q, live) ==
    IF Len(TrimTable[q]) < 4 THEN [ ref |-> DataRef, heap |-> h ]
    ELSE LET query == NormalizedTable[q]
             r     == Alloc(FilterRefs, live)
         IN  [ ref |-> r, heap |-> (r :> arrayFilter(h[DataRef], query)) @@ h ]

\* Fault variant of filterMemo: no early return for a blank query.
filterMemoAlwaysFilter(h, q, live) ==
    LET query == NormalizedTable[q]
        r     == Alloc(FilterRefs, live)
    IN  [ ref |-> r, heap |-> (r :> arrayFilter(h[DataRef], query)) @@ h ]

\* Fault variant of filterMemo: the query is trimmed but not lower-cased.
filterMemoNoLowerCase(h, q, live) ==
    IF TrimTable[q] = "" THEN [ ref |-> DataRef, heap |-> h ]
    ELSE LET query == TrimTable[q]
             r     == Alloc(FilterRefs, live)
         IN  [ ref  |-> r,
               heap |-> (r :> SelectSeq(h[DataRef],
                                        LAMBDA t : matchesQuery(t, query))) @@ h ]

\* The useMemo callback of filteredTransactions: the reference it returns
\* and the heap after it ran.
filterMemo(h, q, live) ==
    IF TrimTable[q] = "" THEN [ ref |-> DataRef, heap |-> h ]
    ELSE LET query == NormalizedTable[q]
             r     == Alloc(FilterRefs, live)
         IN  [ ref |-> r, heap |-> (r :> arrayFilter(h[DataRef], query)) @@ h ]

isSearchingOf(q) == Len(TrimTable[q]) > 0

-----------------------------------------------------------------------------
(* TransactionsTable: sortConfig, handleSort, sortedData *)

\* TABLE_COLUMNS, by key, in header order.
ColumnKeys == << "date", "remark", "amount", "currency", "type" >>

SortKeys == { ColumnKeys[i] : i \in 1..Len(ColumnKeys) }

SortOrders == { "asc", "desc" }

\* Fault variant of DefaultSortConfig: the table starts in ascending order.
DefaultSortConfigAsc == [ key |-> "date", order |-> "asc" ]

DefaultSortConfig == [ key |-> "date", order |-> "desc" ]

\* The sortConfig slot while the table is not mounted.
NoSortConfig == [ key |-> "none", order |-> "none" ]

\* Fault variant of NextSortConfig: the order flips whatever column was
\* active.
NextSortConfigFlipAlways(current, key) ==
    [ key   |-> key,
      order |-> IF current.order = "desc" THEN "asc" ELSE "desc" ]

\* The updater handleSort passes to setSortConfig.
NextSortConfig(current, key) ==
    [ key   |-> key,
      order |-> IF current.key = key /\ current.order = "desc" THEN "asc"
                ELSE "desc" ]

\* Fault variant of valueLess: the date column is compared as a day-first
\* calendar date, not as the stored string.
valueLessCalendarDate(key, aValue, bValue) ==
    LET calendar(s) == 10000 * digitsValue(SubSeq(s, 7, 10))
                       + 100 * digitsValue(SubSeq(s, 4, 5))
                       + digitsValue(SubSeq(s, 1, 2))
    IN  IF key \in { "amount", "id" } THEN aValue < bValue
        ELSE IF key = "date" THEN calendar(aValue) < calendar(bValue)
        ELSE stringLess(aValue, bValue)

\* aValue < bValue for the values of one column: numbers for amount (and
\* id), strings for the other keys.
valueLess(key, aValue, bValue) ==
    IF key \in { "amount", "id" } THEN aValue < bValue
    ELSE stringLess(aValue, bValue)

\* Fault variant of compareFn: the order is ignored.
compareFnAscOnly(a, b, config) ==
    LET aValue == a[config.key]
        bValue == b[config.key]
    IN  IF valueLess(config.key, aValue, bValue) THEN 0 - 1
        ELSE IF valueLess(config.key, bValue, aValue) THEN 1
        ELSE 0

\* The comparator passed to sort.
compareFn(a, b, config) ==
    LET aValue == a[config.key]
        bValue == b[config.key]
    IN  IF valueLess(config.key, aValue, bValue)
        THEN (IF config.order = "asc" THEN 0 - 1 ELSE 1)
        ELSE IF valueLess(config.key, bValue, aValue)
        THEN (IF config.order = "asc" THEN 1 ELSE 0 - 1)
        ELSE 0

\* The comparator for every sortConfig and pair of transactions of the
\* pool, evaluated once.
CompareTable ==
    [ config \in [ key : SortKeys, order : SortOrders ] |->
        [ a \in Pool |-> [ b \in Pool |-> compareFn(a, b, config) ] ] ]

\* One step of the insertion: x goes behind every element that does not
\* compare greater than it.
RECURSIVE insertSorted(_, _, _)
insertSorted(sorted, x, config) ==
    IF sorted = << >> THEN << x >>
    ELSE LET last == sorted[Len(sorted)]
         IN  IF CompareTable[config][last][x] > 0
             THEN Append(insertSorted(SubSeq(sorted, 1, Len(sorted) - 1), x, config), last)
             ELSE Append(sorted, x)

\* The insertion sort of arr under the comparator.
RECURSIVE insertionSort(_, _)
insertionSort(arr, config) ==
    IF arr = << >> THEN << >>
    ELSE insertSorted(insertionSort(SubSeq(arr, 1, Len(arr) - 1), config),
                      arr[Len(arr)], config)

\* Fault variant of arraySort: desc is the reversal of the asc result.
arraySortReverseForDesc(arr, config) ==
    IF config.order = "desc"
    THEN LET asc == insertionSort(arr, [ config EXCEPT !.order = "asc" ])
         IN  [ i \in 1..Len(asc) |-> asc[Len(asc) + 1 - i] ]
    ELSE insertionSort(arr, config)

\* Fault variant of arraySort: loses the first element when it ties with
\* the second.
arraySortDropsTie(arr, config) ==
    LET s == insertionSort(arr, config)
    IN  IF Len(s) >= 2 /\ CompareTable[config][s[1]][s[2]] = 0
        THEN SubSeq(s, 2, Len(s))
        ELSE s

\* Array.prototype.sort with a comparator.  The language requires the sort
\* to be stable; for a consistent comparator every stable sort returns the
\* same array, computed here by insertion from the left.
arraySort(arr, config) == insertionSort(arr, config)

\* Fault variant of sortMemo: sort without the spread, on the input array.
sortMemoInPlace(h, filtered, config, live) ==
    [ ref  |-> filtered,
      heap |-> [ h EXCEPT ![filtered] = arraySort(h[filtered], config) ] ]

\* The useMemo callback of sortedData: [...filteredTransactions] allocates
\* a copy, sort orders the copy in place and returns it.
sortMemo(h, filtered, config, live) ==
    LET copy == Alloc(SortRefs, live)
        h1   == (copy :> h[filtered]) @@ h
    IN  [ ref  |-> copy,
          heap |-> [ h1 EXCEPT ![copy] = arraySort(h1[copy], config) ] ]

\* Fault variant of sortMemoHit: sortConfig missing from the dependencies.
sortMemoHitFilteredOnly(deps, filtered, config) ==
    deps.filtered = filtered

\* useMemo keeps sortedData while [filteredTransactions, sortConfig] is
\* unchanged.  filteredTransactions is compared by reference; a sortConfig
\* object is replaced only by handleSort, which always changes its value.
sortMemoHit(deps, filtered, config) ==
    deps = [ filtered |-> filtered, sortConfig |-> config ]

\* Fault variant of sortableHeader: the indicator shows the opposite order.
sortableHeaderInverted(sortKey, config) ==
    LET isActive == config.key = sortKey
    IN  [ sortKey  |-> sortKey,
          isActive |-> isActive,
          isDesc   |-> isActive /\ config.order = "asc" ]

\* SortableHeader for one column.
sortableHeader(sortKey, config) ==
    LET isActive == config.key = sortKey
    IN  [ sortKey  |-> sortKey,
          isActive |-> isActive,
          isDesc   |-> isActive /\ config.order = "desc" ]

NoBanner == [ shown |-> FALSE, count |-> 0, query |-> "" ]

NoEmptyState == [ shown |-> FALSE, message |-> "", query |-> "" ]

\* The view while the table is not mounted.
NoView == [ mounted |-> FALSE, banner |-> NoBanner, emptyState |-> NoEmptyState,
            headers |-> << >>, rows |-> << >> ]

\* Fault variant of tableView: the empty state tests the raw query, not
\* isSearching.
tableViewRawQuery(filteredArr, sortedArr, isSearching, q, config) ==
    [ mounted |-> TRUE,
      banner  |-> IF isSearching
                  THEN [ shown |-> TRUE, count |-> Len(filteredArr), query |-> q ]
                  ELSE NoBanner,
      emptyState |->
          IF Len(sortedArr) = 0
          THEN IF q # ""
               THEN [ shown |-> TRUE, message |-> "No transactions found matching",
                      query |-> q ]
               ELSE [ shown |-> TRUE, message |-> "No transactions available",
                      query |-> "" ]
          ELSE NoEmptyState,
      headers |-> IF Len(sortedArr) = 0 THEN << >>
                  ELSE [ i \in 1..Len(ColumnKeys) |->
                           sortableHeader(ColumnKeys[i], config) ],
      rows    |-> sortedArr ]

\* Fault variant of tableView: the banner is left out when nothing matched.
tableViewNoZeroBanner(filteredArr, sortedArr, isSearching, q, config) ==
    [ mounted |-> TRUE,
      banner  |-> IF isSearching /\ Len(filteredArr) > 0
                  THEN [ shown |-> TRUE, count |-> Len(filteredArr), query |-> q ]
                  ELSE NoBanner,
      emptyState |->
          IF Len(sortedArr) = 0
          THEN IF isSearching
               THEN [ shown |-> TRUE, message |-> "No transactions found matching",
                      query |-> q ]
               ELSE [ shown |-> TRUE, message |-> "No transactions available",
                      query |-> "" ]
          ELSE NoEmptyState,
      headers |-> IF Len(sortedArr) = 0 THEN << >>
                  ELSE [ i \in 1..Len(ColumnKeys) |->
                           sortableHeader(ColumnKeys[i], config) ],
      rows    |-> sortedArr ]

\* What TransactionsTable returns: the banner, then either the empty state
\* or the table (headers and one row per element of sortedData).
tableView(filteredArr, sortedArr, isSearching, q, config) ==
    [ mounted |-> TRUE,
      banner  |-> IF isSearching
                  THEN [ shown |-> TRUE, count |-> Len(filteredArr), query |-> q ]
                  ELSE NoBanner,
      emptyState |->
          IF Len(sortedArr) = 0
          THEN IF isSearching
               THEN [ shown |-> TRUE, message |-> "No transactions found matching",
                      query |-> q ]
               ELSE [ shown |-> TRUE, message |-> "No transactions available",
                      query |-> "" ]
          ELSE NoEmptyState,
      headers |-> IF Len(sortedArr) = 0 THEN << >>
                  ELSE [ i \in 1..Len(ColumnKeys) |->
                           sortableHeader(ColumnKeys[i], config) ],
      rows    |-> sortedArr ]

-----------------------------------------------------------------------------
(* One React commit: the state update of an event, then the re-render *)

Mounted(tab) == tab = "overview"

\* The state after the event set searchQuery to q, activeTab to tab and
\* (when the table stays mounted) sortConfig to config.  SearchProvider
\* re-renders first, then TransactionsTable when its TabsContent shows it;
\* a table that mounts starts from the default sortConfig with no memo.
\* A render that throws leaves the error state: the tree is replaced by an
\* error screen and takes no further event.  (The comparator of sort applies
\* < and > to strings and numbers, which cannot throw.)
Commit(q, tab, config) ==
    LET live == { DataRef, filteredTransactions, sortedData } \ { NullRef }
        prov == IF q = filterDeps
                THEN [ ref |-> filteredTransactions, heap |-> heap ]
                ELSE filterMemo(heap, q, live)
        cfg  == IF Mounted(activeTab) THEN config ELSE DefaultSortConfig
        tbl  == IF Mounted(activeTab) /\ sortMemoHit(sortDeps, prov.ref, cfg)
                THEN [ ref |-> sortedData, heap |-> prov.heap ]
                ELSE sortMemo(prov.heap, prov.ref, cfg, live \cup { prov.ref })
    IN  /\ UNCHANGED << hookVars, cliVars, terminal >>
        /\ renderError = "none"
        /\ renderError' = IF q # filterDeps /\ filterMemoThrows(heap[DataRef], q)
                          THEN "SearchProvider" ELSE "none"
        /\ searchQuery' = q
        /\ filterDeps' = q
        /\ filteredTransactions' = prov.ref
        /\ activeTab' = tab
        /\ IF Mounted(tab)
           THEN /\ sortConfig' = cfg
                /\ sortedData' = tbl.ref
                /\ sortDeps' = [ filtered |-> prov.ref, sortConfig |-> cfg ]
                /\ view' = tableView(tbl.heap[prov.ref], tbl.heap[tbl.ref],
                                     isSearchingOf(q), q, cfg)
                /\ heap' = Restrict(tbl.heap, { DataRef, prov.ref, tbl.ref })
           ELSE /\ sortConfig' = NoSortConfig
                /\ sortedData' = NullRef
                /\ sortDeps' = [ filtered |-> NullRef, sortConfig |-> NoSortConfig ]
                /\ view' = NoView
                /\ heap' = Restrict(prov.heap, { DataRef, prov.ref })

-----------------------------------------------------------------------------
(* Events *)

\* Search: the input's onChange.
setSearchQuery(q) ==
    /\ isExpanded
    /\ Commit(q, activeTab, sortConfig)
    /\ UNCHANGED isExpanded

\* Search: the collapsed button's onClick.
handleExpand ==
    /\ renderError = "none"
    /\ ~isExpanded
    /\ isExpanded' = TRUE
    /\ UNCHANGED << heap, searchQuery, filteredTransactions, filterDeps,
                    activeTab, sortConfig, sortedData, sortDeps, view,
                    renderError >>
    /\ UNCHANGED << hookVars, cliVars, terminal >>

\* Fault variant of handleClickOutside: collapses the box whatever the query.
handleClickOutsideAlwaysCollapses ==
    /\ renderError = "none"
    /\ isExpanded
    /\ isExpanded' = FALSE
    /\ UNCHANGED << heap, searchQuery, filteredTransactions, filterDeps,
                    activeTab, sortConfig, sortedData, sortDeps, view,
                    renderError >>
    /\ UNCHANGED << hookVars, cliVars, terminal >>

\* Search: mousedown outside the container, listened for while expanded.
handleClickOutside ==
    /\ renderError = "none"
    /\ isExpanded
    /\ isExpanded' = (IF TrimTable[searchQuery] = "" THEN FALSE ELSE isExpanded)
    /\ UNCHANGED << heap, searchQuery, filteredTransactions, filterDeps,
                    activeTab, sortConfig, sortedData, sortDeps, view,
                    renderError >>
    /\ UNCHANGED << hookVars, cliVars, terminal >>

\* Fault variant of handleClose: collapses the box and keeps the query.
handleCloseKeepsQuery ==
    /\ isExpanded
    /\ Commit(searchQuery, activeTab, sortConfig)
    /\ isExpanded' = FALSE

\* Search: the clear and Cancel buttons; clearSearch() then collapse.
handleClose ==
    /\ isExpanded
    /\ Commit("", activeTab, sortConfig)
    /\ isExpanded' = FALSE

\* Fault variant of handleSort: the header click also clears the query.
handleSortClearsQuery(key) ==
    /\ view.mounted
    /\ \E i \in DOMAIN view.headers : view.headers[i].sortKey = key
    /\ Commit("", activeTab, NextSortConfig(sortConfig, key))
    /\ UNCHANGED isExpanded

\* TransactionsTable: a click on a rendered column header.
handleSort(key) ==
    /\ view.mounted
    /\ \E i \in DOMAIN view.headers : view.headers[i].sortKey = key
    /\ Commit(searchQuery, activeTab, NextSortConfig(sortConfig, key))
    /\ UNCHANGED isExpanded

\* TabsTrigger: onClick.
setActiveTab(value) ==
    /\ Commit(searchQuery, value, sortConfig)
    /\ UNCHANGED isExpanded

-----------------------------------------------------------------------------
(* The state machine *)

\* The first render: SearchProvider, then TransactionsTable in the
\* overview tab, over any collection.
-----------------------------------------------------------------------------
(* Context hooks: useSearch and useTabs *)

\* Bound: how many providers may enclose the component that calls a hook.
MaxDepth == 3

\* createContext<...>(undefined): the value a consumer reads when no
\* provider of the context encloses it.
Undefined == [ undefined |-> TRUE ]

\* The value SearchProvider passes to SearchContext.Provider (its data
\* fields; the two setters and the array are left out).
SearchProviderValue(q) == [ searchQuery |-> q, isSearching |-> isSearchingOf(q) ]

\* The value Tabs passes to TabsContext.Provider.
TabsValue(tab) == [ activeTab |-> tab ]

\* The providers that can enclose a component.
Providers ==
    { [ context |-> "SearchContext", value |-> SearchProviderValue(q) ] :
          q \in { "", "credit" } }
    \cup
    { [ context |-> "TabsContext", value |-> TabsValue(tab) ] :
          tab \in { "overview", "transactions" } }

\* The providers above a component, outermost first.
ProviderPaths == UNION { [ 1..n -> Providers ] : n \in 0..MaxDepth }

\* React's useContext: the value of the nearest enclosing provider of the
\* context, or the default of createContext when there is none.
useContext(context, path) ==
    LET at == { i \in 1..Len(path) : path[i].context = context }
    IN  IF at = {} THEN Undefined
        ELSE path[CHOOSE i \in at : \A j \in at : j <= i].value

\* A hook call returns a value or throws an Error with a message.
Returns(value) == [ threw |-> FALSE, error |-> "", value |-> value ]
Throws(message) == [ threw |-> TRUE, error |-> message, value |-> Undefined ]

\* Fault variant of useSearch: hands the default of the context to the
\* caller instead of throwing.
useSearchReturnsDefault(path) == Returns(useContext("SearchContext", path))

\* useSearch
useSearch(path) ==
    LET context == useContext("SearchContext", path)
    IN  IF context = Undefined
        THEN Throws("useSearch must be used within a SearchProvider")
        ELSE Returns(context)

\* useTabs
useTabs(path) ==
    LET context == useContext("TabsContext", path)
    IN  IF context = Undefined
        THEN Throws("useTabs must be used within a TabsProvider")
        ELSE Returns(context)

NoCall == [ hook |-> "none", path |-> << >> ]
NoResult == [ threw |-> FALSE, error |-> "", value |-> Undefined ]

\* A component under the providers of path renders and calls useSearch.
callUseSearch(path) ==
    /\ hookCall' = [ hook |-> "useSearch", path |-> path ]
    /\ hookResult' = useSearch(path)
    /\ UNCHANGED << appVars, cliVars, terminal >>

\* A component under the providers of path renders and calls useTabs.
callUseTabs(path) ==
    /\ hookCall' = [ hook |-> "useTabs", path |-> path ]
    /\ hookResult' = useTabs(path)
    /\ UNCHANGED << appVars, cliVars, terminal >>

-----------------------------------------------------------------------------
(* The command-line tool of docs/article.md: subcategories and records *)

\* Bounds: the largest next_subcategory_id the model lets the tracker
\* reach, and the number of records it lets `fintrack add` create.
MaxSubcategoryId == 3
MaxRecords == 1

\* Inputs of the record commands.
Categories == { "income", "expenses" }
Amounts == { 0, 100 }

\* Option<T>: None is the empty sequence, Some(x) is << x >>.
Option(S) == { << >> } \cup { << x >> : x \in S }

\* The optional arguments `fintrack update` is given in the model.
UpdateCategories == Option({ "expenses" })
UpdateAmounts == Option({ 0 })

\* TrackerData::category_id over the fixed categories of default_tracker_json.
category_id(category) == IF category = "income" THEN 1 ELSE 2

\* Names a user can type that parse_label accepts.
Labels == { "miscellaneous", "Miscellaneous", "rent", "Food" }

\* str::to_lowercase, on the ASCII names of the model.
to_lowercase(s) == toLowerCase(s)

toUpperChar(c) ==
    IF InTable(LowerTable, c) THEN Char(UpperTable, IndexIn(LowerTable, c)) ELSE c

\* name_title: first.to_uppercase() + the rest in lower case.
name_title(name_lower) ==
    toUpperChar(Char(name_lower, 1)) \o SubSeq(name_lower, 2, Len(name_lower))

\* to_lowercase and name_title for every label, evaluated once.
LowerOf == [ name \in Labels |-> to_lowercase(name) ]
TitleOf == [ name \in Labels |-> name_title(to_lowercase(name)) ]

\* HashMap::insert, HashMap::remove, HashMap::contains_key
insert(map, k, v) == [ x \in DOMAIN map \cup { k } |-> IF x = k THEN v ELSE map[x] ]
remove(map, k) == [ x \in DOMAIN map \ { k } |-> map[x] ]
contains_key(map, k) == k \in DOMAIN map

\* The tracker file before `fintrack init`.
NoTrackerFile == [ exists |-> FALSE ]

\* default_tracker_json: the tracker that `fintrack init` writes.
default_tracker_json ==
    [ exists                |-> TRUE,
      subcategories_by_id   |-> [ id \in { 1 } |-> "miscellaneous" ],
      subcategories_by_name |-> [ name \in { "miscellaneous" } |-> 1 ],
      next_subcategory_id   |-> 2,
      records               |-> << >>,
      next_record_id        |-> 1 ]

NoCommand == "none"
Ok == "Ok"
Err(kind) == kind

\* A command that returns Err before write_json_to_file leaves the file.
Fails(kind) ==
    /\ cliResult' = Err(kind)
    /\ UNCHANGED tracker_data

\* A command that wrote data to the file and returned Ok.
Writes(data) ==
    /\ cliResult' = Ok
    /\ tracker_data' = data

\* fintrack init: create_file_if_not_exists fails when the file exists.
initExec ==
    /\ IF tracker_data.exists
       THEN Fails("FileAlreadyExists")
       ELSE Writes(default_tracker_json)
    /\ UNCHANGED << appVars, hookVars, terminal >>

\* fintrack add <category> <amount> -s <subcategory>: the subcategory name
\* is looked up as typed, and the record refers to the subcategory by id.
recordAddExec(category, amount, subcategory_name) ==
    /\ tracker_data.exists
    /\ tracker_data.next_record_id <= MaxRecords
    /\ IF amount <= 0
       THEN Fails("AmountTooSmall")
       ELSE IF ~contains_key(tracker_data.subcategories_by_name, subcategory_name)
       THEN Fails("SubcategoryNotFound")
       ELSE Writes([ tracker_data EXCEPT
                !.records = Append(@,
                    [ id |-> tracker_data.next_record_id,
                      category |-> category_id(category),
                      subcategory |->
                          tracker_data.subcategories_by_name[subcategory_name] ]),
                !.next_record_id = @ + 1 ])
    /\ UNCHANGED << appVars, hookVars, terminal >>

\* Fault variant of recordUpdateExec: the subcategory name is not looked
\* up; an unknown name stores the id 0.
recordUpdateExecUnchecked(record_id, category, amount, subcategory) ==
    /\ tracker_data.exists
    /\ IF ~\E i \in 1..Len(tracker_data.records) :
               tracker_data.records[i].id = record_id
       THEN Fails("RecordNotFound")
       ELSE Writes([ tracker_data EXCEPT !.records =
                [ i \in 1..Len(@) |->
                    IF @[i].id # record_id \/ subcategory = << >> THEN @[i]
                    ELSE [ @[i] EXCEPT !.subcategory =
                        IF contains_key(tracker_data.subcategories_by_name,
                                        subcategory[1])
                        THEN tracker_data.subcategories_by_name[subcategory[1]]
                        ELSE 0 ] ] ])
    /\ UNCHANGED << appVars, hookVars, terminal >>

\* fintrack update <record_id> [-c category] [-a amount] [-s subcategory]
recordUpdateExec(record_id, category, amount, subcategory) ==
    /\ tracker_data.exists
    /\ IF /\ subcategory # << >>
          /\ ~contains_key(tracker_data.subcategories_by_name, subcategory[1])
       THEN Fails("SubcategoryNotFound")
       ELSE IF ~\E i \in 1..Len(tracker_data.records) :
                    tracker_data.records[i].id = record_id
       THEN Fails("RecordNotFound")
       ELSE IF amount # << >> /\ amount[1] <= 0
       THEN Fails("AmountTooSmall")
       ELSE Writes([ tracker_data EXCEPT !.records =
                [ i \in 1..Len(@) |->
                    IF @[i].id # record_id THEN @[i]
                    ELSE [ @[i] EXCEPT
                        !.category =
                            IF category = << >> THEN @
                            ELSE category_id(category[1]),
                        !.subcategory =
                            IF subcategory = << >> THEN @
                            ELSE tracker_data.subcategories_by_name[
                                     subcategory[1]] ] ] ])
    /\ UNCHANGED << appVars, hookVars, terminal >>

\* fintrack delete -i <ids>; Vec::retain keeps the records the closure
\* accepts, in order.
recordDeleteByIds(ids_set) ==
    /\ tracker_data.exists
    /\ Writes([ tracker_data EXCEPT
           !.records = SelectSeq(@, LAMBDA r : r.id \notin ids_set) ])
    /\ UNCHANGED << appVars, hookVars, terminal >>

\* fintrack delete -c <category>
recordDeleteByCat(category) ==
    /\ tracker_data.exists
    /\ Writes([ tracker_data EXCEPT
           !.records = SelectSeq(@, LAMBDA r : r.category # category_id(category)) ])
    /\ UNCHANGED << appVars, hookVars, terminal >>

\* fintrack delete -s <subcategory>
recordDeleteBySubcat(subcategory_name) ==
    /\ tracker_data.exists
    /\ IF ~contains_key(tracker_data.subcategories_by_name, subcategory_name)
       THEN Fails("SubcategoryNotFound")
       ELSE LET subcategory_id ==
                    tracker_data.subcategories_by_name[subcategory_name]
            IN  Writes([ tracker_data EXCEPT
                    !.records = SelectSeq(@, LAMBDA r : r.subcategory # subcategory_id) ])
    /\ UNCHANGED << appVars, hookVars, terminal >>

\* fintrack subcategory add <name>
subcategoryAddExec(name) ==
    LET name_lower == LowerOf[name]
        subcategory_id == tracker_data.next_subcategory_id
    IN  /\ tracker_data.exists
        /\ tracker_data.next_subcategory_id < MaxSubcategoryId
        /\ IF contains_key(tracker_data.subcategories_by_name, name_lower)
           THEN Fails("SubcategoryAlreadyExists")
           ELSE IF name_lower = "miscellaneous"
           THEN Fails("CannotDeleteMiscellaneous")
           ELSE Writes([ tracker_data EXCEPT
                    !.subcategories_by_id = insert(@, subcategory_id, TitleOf[name]),
                    !.subcategories_by_name = insert(@, name_lower, subcategory_id),
                    !.next_subcategory_id = @ + 1 ])
        /\ UNCHANGED << appVars, hookVars, terminal >>

\* fintrack subcategory delete <name>
subcategoryDeleteExec(name) ==
    LET name_lower == LowerOf[name]
    IN  /\ tracker_data.exists
        /\ IF name_lower = "miscellaneous"
           THEN Fails("CannotDeleteMiscellaneous")
           ELSE IF ~contains_key(tracker_data.subcategories_by_name, name_lower)
           THEN Fails("SubcategoryNotFound")
           ELSE LET subcategory_id == tracker_data.subcategories_by_name[name_lower]
                    record_count ==
                        Cardinality({ i \in 1..Len(tracker_data.records) :
                            tracker_data.records[i].subcategory = subcategory_id })
                IN  IF record_count > 0
                    THEN Fails("SubcategoryHasRecords")
                    ELSE Writes([ tracker_data EXCEPT
                             !.subcategories_by_id = remove(@, subcategory_id),
                             !.subcategories_by_name = remove(@, name_lower) ])
        /\ UNCHANGED << appVars, hookVars, terminal >>

\* fintrack subcategory rename <old> <new>: the old name is looked up and
\* the new name is tested for a clash; the old name is not compared with
\* "miscellaneous".
subcategoryRenameExec(old_name, new_name) ==
    LET old_name_lower == LowerOf[old_name]
        new_name_lower == LowerOf[new_name]
    IN  /\ tracker_data.exists
        /\ IF ~contains_key(tracker_data.subcategories_by_name, old_name_lower)
           THEN Fails("SubcategoryNotFound")
           ELSE IF contains_key(tracker_data.subcategories_by_name, new_name_lower)
           THEN Fails("SubcategoryAlreadyExists")
           ELSE LET subcategory_id ==
                        tracker_data.subcategories_by_name[old_name_lower]
                IN  Writes([ tracker_data EXCEPT
                        !.subcategories_by_id =
                            insert(@, subcategory_id, TitleOf[new_name]),
                        !.subcategories_by_name =
                            insert(remove(@, old_name_lower),
                                   new_name_lower, subcategory_id) ])
        /\ UNCHANGED << appVars, hookVars, terminal >>

-----------------------------------------------------------------------------
(* AnimatedTerminal *)

\* Bound: the largest value the model lets animationIdRef.current reach.
MaxAnimationId == 9

\* TERMINAL_STEPS: each step's command and the types of its output lines.
TERMINAL_STEPS ==
    << [ command |-> "fintrack init -c NGN",
         output  |-> << "success", "output" >> ],
       [ command |-> "fintrack add Income 50000 -s Wages -d \"Monthly Salary\"",
         output  |-> << "success", "output" >> ],
       [ command |-> "fintrack add Expenses 1200 -s Housing -d \"Rent\"",
         output  |-> << "success", "output" >> ],
       [ command |-> "fintrack list",
         output  |-> << "header", "header", "header", "table", "table", "header" >> ],
       [ command |-> "fintrack total",
         output  |-> << "header", "output", "success", "output", "header",
                        "success" >> ] >>

\* The TerminalLine object TERMINAL_STEPS[step].output[index] (steps from
\* 0, as stepIndex counts them): its type and which line of the table it is.
outputLine(step, index) ==
    [ type  |-> TERMINAL_STEPS[step + 1].output[index],
      step  |-> step,
      index |-> index ]

\* { type: "command", content: `$ ${step.command}` }
commandLine(command) == [ type |-> "command", content |-> "$ " \o command ]

\* { type: "output", content: "" }
blankLine == [ type |-> "output", content |-> "" ]

\* String.prototype.slice(0, i) for 0 <= i <= length.
slice(str, i) == SubSeq(str, 1, i)

\* The component before it is mounted.
NotMounted ==
    [ mounted        |-> FALSE,
      lines          |-> << >>,
      currentCommand |-> "",
      stepIndex      |-> 0,
      isTyping       |-> FALSE,
      animationIdRef |-> 0,
      runs           |-> { } ]

\* Fault variant of isValid: a run never notices that it was superseded.
isValidAlways(t, myId) == TRUE

\* isValid = () => animationIdRef.current === myId
isValid(t, myId) == t.animationIdRef = myId

\* Fault variant of nextStepIndex: the updater skips a step.
nextStepIndexSkips(prev) == prev + 2

\* The updater of setStepIndex: (prev) => prev + 1
nextStepIndex(prev) == prev + 1

\* The effect of deps [stepIndex]: take the next animation id and start
\* runAnimation, which runs up to its first await.  For a step that is the
\* start of typeCommand: setIsTyping(true), the first validity check,
\* setCurrentCommand(command.slice(0, 0)) and the TYPING_SPEED timer; past
\* the last step it is the 3000 ms timer of the reset branch.
useEffectRun(t) ==
    LET myId == t.animationIdRef + 1
        t1   == [ t EXCEPT !.animationIdRef = myId ]
    IN  IF t1.stepIndex < Len(TERMINAL_STEPS)
        THEN [ t1 EXCEPT
                 !.isTyping = TRUE,
                 !.currentCommand =
                     IF isValid(t1, myId)
                     THEN slice(TERMINAL_STEPS[t1.stepIndex + 1].command, 0)
                     ELSE @,
                 !.runs = IF isValid(t1, myId)
                          THEN @ \cup { [ myId |-> myId, step |-> t1.stepIndex,
                                          pc |-> "typing", i |-> 0 ] }
                          ELSE @ ]
        ELSE [ t1 EXCEPT
                 !.runs = @ \cup { [ myId |-> myId, step |-> t1.stepIndex,
                                     pc |-> "reset", i |-> 0 ] } ]

\* runStep from the end of showOutput: the blank line, then the STEP_DELAY
\* timer of runAnimation.
finishStep(t, run, others) ==
    [ t EXCEPT !.lines = Append(@, blankLine),
               !.runs = others \cup { [ run EXCEPT !.pc = "stepDelay", !.i = 0 ] } ]

\* A timer of run fired: the run goes on from its await up to its next
\* await or its return.  Every path starts with a validity check, and a run
\* that fails it returns without a state update.
resume(t, run) ==
    LET others == t.runs \ { run }
        step   == TERMINAL_STEPS[run.step + 1]
    IN  IF ~isValid(t, run.myId) THEN [ t EXCEPT !.runs = others ]
        ELSE IF run.pc = "typing" THEN
            IF run.i + 1 <= Len(step.command)
            THEN [ t EXCEPT
                     !.currentCommand = slice(step.command, run.i + 1),
                     !.runs = others \cup { [ run EXCEPT !.i = @ + 1 ] } ]
            ELSE [ t EXCEPT
                     !.isTyping = FALSE,
                     !.lines = Append(@, commandLine(step.command)),
                     !.currentCommand = "",
                     !.runs = others \cup
                         { [ run EXCEPT !.pc = "commandShown", !.i = 0 ] } ]
        ELSE IF run.pc = "commandShown" THEN
            IF Len(step.output) = 0 THEN finishStep(t, run, others)
            ELSE [ t EXCEPT
                     !.runs = others \cup { [ run EXCEPT !.pc = "output", !.i = 1 ] } ]
        ELSE IF run.pc = "output" THEN
            LET shown == [ t EXCEPT !.lines = Append(@, outputLine(run.step, run.i)) ]
            IN  IF run.i + 1 <= Len(step.output)
                THEN [ shown EXCEPT
                         !.runs = others \cup { [ run EXCEPT !.i = @ + 1 ] } ]
                ELSE finishStep(shown, run, others)
        ELSE IF run.pc = "stepDelay" THEN
            [ t EXCEPT !.stepIndex = nextStepIndex(@), !.runs = others ]
        ELSE \* "reset"
            [ t EXCEPT !.lines = << >>, !.stepIndex = 0, !.runs = others ]

\* The component mounts and its effect runs; under StrictMode the effect
\* runs twice in a row.
mountTerminal(strict) ==
    /\ ~terminal.mounted
    /\ terminal' = (LET t == useEffectRun([ NotMounted EXCEPT !.mounted = TRUE ])
                    IN  IF strict THEN useEffectRun(t) ELSE t)
    /\ UNCHANGED << appVars, hookVars, cliVars >>

\* A timer of run fires; when the run ended by changing stepIndex, the
\* component re-renders and the effect runs again.
timerFires(run) ==
    /\ terminal.mounted
    /\ run \in terminal.runs
    /\ LET t == resume(terminal, run)
       IN  IF t.stepIndex # terminal.stepIndex
           THEN /\ t.animationIdRef < MaxAnimationId
                /\ terminal' = useEffectRun(t)
           ELSE terminal' = t
    /\ UNCHANGED << appVars, hookVars, cliVars >>

Init ==
    \E data \in Collections :
        LET h0   == (DataRef :> data)
            prov == filterMemo(h0, "", { DataRef })
            tbl  == sortMemo(prov.heap, prov.ref, DefaultSortConfig,
                             { DataRef, prov.ref })
        IN  /\ searchQuery = ""
            /\ filterDeps = ""
            /\ filteredTransactions = prov.ref
            /\ isExpanded = FALSE
            /\ activeTab = "overview"
            /\ sortConfig = DefaultSortConfig
            /\ sortedData = tbl.ref
            /\ sortDeps = [ filtered |-> prov.ref, sortConfig |-> DefaultSortConfig ]
            /\ view = tableView(tbl.heap[prov.ref], tbl.heap[tbl.ref],
                                isSearchingOf(""), "", DefaultSortConfig)
            /\ heap = Restrict(tbl.heap, { DataRef, prov.ref, tbl.ref })
            /\ renderError = "none"
            /\ hookCall = NoCall
            /\ hookResult = NoResult
            /\ tracker_data = NoTrackerFile
            /\ cliResult = NoCommand
            /\ terminal = NotMounted

Next ==
    \/ \E q \in Queries : setSearchQuery(q)
    \/ handleExpand
    \/ handleClickOutside
    \/ handleClose
    \/ \E key \in SortKeys : handleSort(key)
    \/ \E value \in { "overview", "transactions" } : setActiveTab(value)

Spec == Init /\ [][Next]_vars

-----------------------------------------------------------------------------
(* Vocabulary of the properties *)

Data == heap[DataRef]

Filtered == heap[filteredTransactions]

Sorted == heap[sortedData]

\* trim(lower(q)) of the current query.
NormalizedQuery == trim(toLowerCase(searchQuery))

QueryIsBlank == trim(searchQuery) = ""

\* The searchable projections of every transaction of the pool.
ProjectionTable == [ t \in Pool |-> searchableFields(t) ]

\* Some projection of t contains q as a substring.
SomeProjectionContains(t, q) ==
    \E i \in 1..Len(ProjectionTable[t]) : includes(ProjectionTable[t][i], q)

InSeq(seq, x) == \E i \in 1..Len(seq) : seq[i] = x

\* The position of x in a sequence of distinct elements.
PosIn(seq, x) == CHOOSE i \in 1..Len(seq) : seq[i] = x

Ids(seq) == [ i \in 1..Len(seq) |-> seq[i].id ]

\* a[key] <= b[key] in JavaScript: b[key] is not less than a[key].
ValueLeq(key, a, b) == ~valueLess(key, b[key], a[key])

ValueEq(key, a, b) == a[key] = b[key]

-----------------------------------------------------------------------------
(* C1 *)

\* C1 - Filter completeness: while the trimmed query is non-empty, every
\* transaction of the collection that is absent from filteredTransactions
\* has no searchable projection containing trim(lower(q)).
C1_FilterCompleteness ==
    ~QueryIsBlank =>
        \A i \in 1..Len(Data) :
            ~InSeq(Filtered, Data[i]) => ~SomeProjectionContains(Data[i], NormalizedQuery)

C1_Witness ==
    /\ searchQuery = "credit"
    /\ Len(Filtered) > 0
    /\ \E i \in 1..Len(Data) : ~InSeq(Filtered, Data[i])

-----------------------------------------------------------------------------
(* C2 *)

\* C2 - Filter inclusion: while the trimmed query is non-empty, every
\* transaction of filteredTransactions has a searchable projection that
\* contains trim(lower(q)); over the example collection the query "credit"
\* returns exactly the Credit transaction.
C2_FilterInclusion ==
    /\ ~QueryIsBlank =>
           \A j \in 1..Len(Filtered) : SomeProjectionContains(Filtered[j], NormalizedQuery)
    /\ (Data = ExampleCollection /\ searchQuery = "credit") => Filtered = << T1 >>

C2_Witness ==
    /\ Data = ExampleCollection
    /\ searchQuery = "credit"
    /\ Ids(Filtered) = << 1 >>

-----------------------------------------------------------------------------
(* C3 *)

\* C3 - Filter identity on a blank query: while the query is empty or only
\* whitespace, filteredTransactions is the array transactionsData itself.
C3_BlankQueryIdentity ==
    QueryIsBlank => filteredTransactions = DataRef

C3_Witness ==
    /\ searchQuery = " "
    /\ filteredTransactions = DataRef
    /\ Len(Data) = MaxLen

-----------------------------------------------------------------------------
(* C4 *)

\* C4 - Sort correctness: every adjacent pair (a, b) of sortedData has
\* a[key] <= b[key] when the order is asc and a[key] >= b[key] when it is
\* desc; the example collection sorted by amount ascending is id 2, id 1.
C4_SortCorrectness ==
    view.mounted =>
        /\ \A i \in 1..(Len(Sorted) - 1) :
               IF sortConfig.order = "asc"
               THEN ValueLeq(sortConfig.key, Sorted[i], Sorted[i + 1])
               ELSE ValueLeq(sortConfig.key, Sorted[i + 1], Sorted[i])
        /\ ( /\ Data = ExampleCollection
             /\ QueryIsBlank
             /\ sortConfig = [ key |-> "amount", order |-> "asc" ] )
           => Ids(Sorted) = << 2, 1 >>

C4_Witness ==
    /\ view.mounted
    /\ Data = ExampleCollection
    /\ searchQuery = ""
    /\ sortConfig = [ key |-> "amount", order |-> "asc" ]
    /\ Ids(Sorted) = << 2, 1 >>

-----------------------------------------------------------------------------
(* C5 *)

\* C5 - Sort stability: two transactions with equal values on the active
\* key stand in sortedData in the order they have in filteredTransactions,
\* for asc and for desc.
C5_SortStability ==
    view.mounted =>
        \A i, j \in 1..Len(Sorted) :
            (i < j /\ ValueEq(sortConfig.key, Sorted[i], Sorted[j]))
                => PosIn(Filtered, Sorted[i]) < PosIn(Filtered, Sorted[j])

C5_Witness ==
    /\ view.mounted
    /\ sortConfig = [ key |-> "amount", order |-> "desc" ]
    /\ Len(Sorted) = MaxLen
    /\ Sorted # Filtered
    /\ \E i, j \in 1..Len(Sorted) :
           i < j /\ ValueEq("amount", Sorted[i], Sorted[j])

-----------------------------------------------------------------------------
(* C6 *)

\* C6 - Toggle semantics: a header click on column k in SortState
\* (key, order) leads to (k, asc) if key = k and order = desc, and to
\* (k, desc) otherwise.
C6_ToggleSemantics ==
    [][ \A k \in SortKeys :
          handleSort(k) =>
              sortConfig' = [ key   |-> k,
                              order |-> IF sortConfig.key = k /\ sortConfig.order = "desc"
                                        THEN "asc" ELSE "desc" ] ]_vars

\* A click on the active column in desc gave asc (and only that gives asc).
C6_Witness ==
    /\ view.mounted
    /\ sortConfig = [ key |-> "amount", order |-> "asc" ]

-----------------------------------------------------------------------------
(* C7 *)

\* filter(all, q) as a value.
FilterOf(all, q) ==
    IF trim(q) = "" THEN all
    ELSE SelectSeq(all, LAMBDA t : SomeProjectionContains(t, trim(toLowerCase(q))))

\* C7 - Composition: in every rendered state the displayed rows are
\* sort(filter(allTransactions, query), key, order) for the current query
\* and the current SortState.
C7_Composition ==
    view.mounted =>
        /\ view.rows = Sorted
        /\ view.rows = insertionSort(FilterOf(Data, searchQuery), sortConfig)

\* Rendered after a query edit and header clicks both took effect.
C7_Witness ==
    /\ view.mounted
    /\ searchQuery = "re"
    /\ sortConfig = [ key |-> "remark", order |-> "asc" ]
    /\ Len(view.rows) = MaxLen
    /\ view.rows # Data

-----------------------------------------------------------------------------
(* C8 *)

\* C8 - Filter order preservation: filteredTransactions is a subsequence
\* of the collection: its elements are elements of the collection, in
\* strictly increasing collection position.
C8_FilterOrderPreserved ==
    /\ \A j \in 1..Len(Filtered) : InSeq(Data, Filtered[j])
    /\ \A i, j \in 1..Len(Filtered) :
           i < j => PosIn(Data, Filtered[i]) < PosIn(Data, Filtered[j])

C8_Witness ==
    /\ filteredTransactions # DataRef
    /\ Len(Filtered) = 2
    /\ Len(Data) = MaxLen

-----------------------------------------------------------------------------
(* C9 *)

\* C9 - Sort never mutates its input: sortedData is an array distinct from
\* filteredTransactions and from the collection, and no step changes the
\* contents of the collection or of an array that stays filteredTransactions.
C9_SortDoesNotMutate ==
    /\ [](view.mounted =>
            sortedData # filteredTransactions /\ sortedData # DataRef)
    /\ [][ /\ heap'[DataRef] = heap[DataRef]
           /\ filteredTransactions' = filteredTransactions
                  => heap'[filteredTransactions'] = heap[filteredTransactions] ]_vars

\* The query is blank, so the input of sort is the collection itself, and
\* sorting put the rows in another order than the collection's.
C9_Witness ==
    /\ view.mounted
    /\ filteredTransactions = DataRef
    /\ sortConfig.key = "amount"
    /\ Sorted # Data

-----------------------------------------------------------------------------
(* C10 *)

\* C10 - Empty-state distinction: when no rows are displayed the view shows
\* "No transactions found matching" iff the trimmed query is non-empty and
\* "No transactions available" otherwise; the latter is shown only when the
\* collection is empty, and no empty state is shown while rows are displayed.
C10_EmptyStateDistinction ==
    view.mounted =>
        /\ view.emptyState.shown <=> (Len(view.rows) = 0)
        /\ view.emptyState.shown =>
               /\ (view.emptyState.message = "No transactions found matching")
                      <=> ~QueryIsBlank
               /\ (view.emptyState.message = "No transactions available")
                      <=> QueryIsBlank
        /\ (view.emptyState.message = "No transactions available") => Len(Data) = 0

\* A non-matching query over a non-empty collection.
C10_Witness ==
    /\ view.mounted
    /\ Len(Data) > 0
    /\ view.emptyState.shown
    /\ view.emptyState.message = "No transactions found matching"

-----------------------------------------------------------------------------
(* C11 *)

\* C11 - Match-count indicator: while the table is rendered, the "Found N
\* transactions matching" banner is shown exactly when the trimmed query is
\* non-empty (also when N = 0), and N is the size of
\* filter(allTransactions, query) for the current query.
C11_MatchCountIndicator ==
    view.mounted =>
        /\ view.banner.shown <=> ~QueryIsBlank
        /\ view.banner.shown =>
               /\ view.banner.count = Len(FilterOf(Data, searchQuery))
               /\ view.banner.query = searchQuery

\* The banner reports no match over a non-empty collection.
C11_Witness ==
    /\ view.mounted
    /\ view.banner.shown
    /\ view.banner.count = 0
    /\ Len(Data) > 0

-----------------------------------------------------------------------------
(* C12 *)

\* The table mounts in this step.
TableMounts == ~view.mounted /\ view'.mounted

\* The table unmounts in this step.
TableUnmounts == view.mounted /\ ~view'.mounted

\* C12 as stated - Lifecycle: when the table mounts, the query is "" and
\* SortState is (date, desc), whatever they were before.
C12_LifecycleAsStated ==
    [][ TableMounts =>
            /\ searchQuery' = ""
            /\ sortConfig' = [ key |-> "date", order |-> "desc" ] ]_vars

\* C12 amended - Lifecycle: only SortState belongs to the table; it is
\* (date, desc) whenever the table mounts, whatever it was before.  The
\* query belongs to SearchProvider in the root layout: neither the unmount
\* nor the mount of the table changes it or filteredTransactions.
C12_Lifecycle ==
    [][ /\ TableMounts => sortConfig' = [ key |-> "date", order |-> "desc" ]
        /\ (TableMounts \/ TableUnmounts) =>
               /\ searchQuery' = searchQuery
               /\ filteredTransactions' = filteredTransactions ]_vars

\* The table is unmounted while a query is still set and filtering.
C12_Witness ==
    /\ ~view.mounted
    /\ searchQuery = "credit"
    /\ filteredTransactions # DataRef
    /\ Len(Filtered) > 0

-----------------------------------------------------------------------------
(* C13 *)

\* The state of the first mount: empty query, SortState (date, desc), no
\* filter active, no banner, and the rows are the whole collection ordered
\* by date descending.
AtFirstMount ==
    /\ searchQuery = ""
    /\ sortConfig = [ key |-> "date", order |-> "desc" ]
    /\ ~isSearchingOf(searchQuery)
    /\ filteredTransactions = DataRef
    /\ view.mounted
    /\ ~view.banner.shown
    /\ Len(view.rows) = Len(Data)
    /\ \A i \in 1..Len(Data) : InSeq(view.rows, Data[i])
    /\ \A i \in 1..(Len(view.rows) - 1) :
           ValueLeq("date", view.rows[i + 1], view.rows[i])
    /\ Data = ExampleCollection => Ids(view.rows) = << 2, 1 >>

\* C13 - Initial state: a property of the initial states alone (the states
\* before any user action); later steps are unconstrained.
C13_InitialState == AtFirstMount /\ [][TRUE]_vars

\* A first mount whose date-descending rows differ from the collection order.
C13_Witness ==
    /\ AtFirstMount
    /\ ~isExpanded
    /\ Len(Data) = MaxLen
    /\ view.rows # Data

-----------------------------------------------------------------------------
(* C14 *)

\* trim(lower(q)) of every query of the model.
NormalForm == [ q \in Queries |-> trim(toLowerCase(q)) ]

\* t with its remark, type and currency in lower case.
LowerVariant(t) ==
    [ t EXCEPT !.remark = toLowerCase(@), !.type = toLowerCase(@),
               !.currency = toLowerCase(@) ]

\* The searchable projections of the lower-case variant of every transaction.
LowerVariantProjections == [ t \in Pool |-> searchableFields(LowerVariant(t)) ]

\* C14 - Query normalization: every raw query with the same trim(lower(.))
\* as the current one has the current filtered result; and a transaction is
\* in the result exactly when its lower-case variant matches, so the letter
\* case of remark, type and currency does not decide a match.
C14_QueryNormalization ==
    /\ \A q2 \in Queries :
           NormalForm[q2] = NormalForm[searchQuery]
               => Filtered = FilterOf(Data, q2)
    /\ ~QueryIsBlank =>
           \A i \in 1..Len(Data) :
               InSeq(Filtered, Data[i])
                   <=> \E k \in 1..Len(LowerVariantProjections[Data[i]]) :
                           includes(LowerVariantProjections[Data[i]][k],
                                    NormalForm[searchQuery])

\* An upper-case, padded query that matches capitalised type values.
C14_Witness ==
    /\ searchQuery = " CREDIT "
    /\ Len(Filtered) > 0
    /\ Len(Filtered) < Len(Data)
    /\ Filtered = FilterOf(Data, "credit")

-----------------------------------------------------------------------------
(* C15 *)

\* a, b stand in this order under the order asc / desc of a comparison
\* "less".
InOrder(order, aLessB, bLessA) == IF order = "asc" THEN ~bLessA ELSE ~aLessB

\* C15 - Comparison kind per key: rows sorted by amount are in numeric
\* order; rows sorted by remark, currency, type or date are in the
\* code-unit lexicographic order of the stored strings.  For date that is
\* the order of the stored string: "01-02-2025" sorts before "02-01-2025"
\* although, read day-first, 1 February is after 2 January.
C15_ComparisonKind ==
    view.mounted =>
        /\ sortConfig.key = "amount" =>
               \A i \in 1..(Len(view.rows) - 1) :
                   InOrder(sortConfig.order,
                           view.rows[i].amount < view.rows[i + 1].amount,
                           view.rows[i + 1].amount < view.rows[i].amount)
        /\ sortConfig.key \in { "remark", "currency", "type", "date" } =>
               \A i \in 1..(Len(view.rows) - 1) :
                   InOrder(sortConfig.order,
                           stringLess(view.rows[i][sortConfig.key],
                                      view.rows[i + 1][sortConfig.key]),
                           stringLess(view.rows[i + 1][sortConfig.key],
                                      view.rows[i][sortConfig.key]))
        /\ ( /\ sortConfig = [ key |-> "date", order |-> "asc" ]
             /\ InSeq(view.rows, T2)
             /\ InSeq(view.rows, T3) )
           => PosIn(view.rows, T3) < PosIn(view.rows, T2)

\* Sorted by date ascending, 1 February stands before 2 January.
C15_Witness ==
    /\ view.mounted
    /\ sortConfig = [ key |-> "date", order |-> "asc" ]
    /\ Data = << T2, T3 >>
    /\ Ids(view.rows) = << 3, 2 >>

\* Sorted by amount ascending, 7 stands before 100 (as strings, "100" < "7").
C15_NumericWitness ==
    /\ view.mounted
    /\ sortConfig = [ key |-> "amount", order |-> "asc" ]
    /\ Data = << T1, T4 >>
    /\ Ids(view.rows) = << 4, 1 >>

-----------------------------------------------------------------------------
(* C16 *)

\* SortState is one (key, order) pair over the column keys and the orders.
SortStateWellFormed ==
    /\ sortConfig.key \in { "date", "remark", "amount", "currency", "type" }
    /\ sortConfig.order \in { "asc", "desc" }

\* Exactly one rendered header is active: the one of SortState.key, and
\* its indicator shows SortState.order.
OneActiveHeader ==
    /\ Cardinality({ i \in DOMAIN view.headers : view.headers[i].isActive }) = 1
    /\ \A i \in DOMAIN view.headers :
           /\ view.headers[i].isActive <=> (view.headers[i].sortKey = sortConfig.key)
           /\ view.headers[i].isActive =>
                  (view.headers[i].isDesc <=> (sortConfig.order = "desc"))

\* C16 as stated - SortState invariant: in every rendered state SortState
\* is well formed and exactly one column header is rendered as active.
\* (Stated over non-empty collections, where only a query edit can leave
\* the table without rows.)
C16_SortStateAsStated ==
    (view.mounted /\ Len(Data) > 0) => (SortStateWellFormed /\ OneActiveHeader)

\* C16 amended - SortState invariant: in every rendered state SortState is
\* well formed; while rows are displayed, one header per column is
\* rendered and exactly one is active (the one of SortState.key, showing
\* SortState.order); while the empty state is displayed, no header is
\* rendered at all.
C16_SortStateInvariant ==
    view.mounted =>
        /\ SortStateWellFormed
        /\ Len(view.rows) > 0 =>
               /\ [ i \in DOMAIN view.headers |-> view.headers[i].sortKey ] = ColumnKeys
               /\ OneActiveHeader
        /\ Len(view.rows) = 0 => view.headers = << >>

\* Rows are displayed with a non-default column active in ascending order.
C16_Witness ==
    /\ view.mounted
    /\ Len(view.rows) > 0
    /\ sortConfig = [ key |-> "currency", order |-> "asc" ]
    /\ \E i \in DOMAIN view.headers :
           /\ view.headers[i].sortKey = "currency"
           /\ view.headers[i].isActive
           /\ ~view.headers[i].isDesc

-----------------------------------------------------------------------------
(* C17 *)

-----------------------------------------------------------------------------
(* C18 *)

\* C18 - Totality: no render of the filter or the sort throws; in every
\* state filteredTransactions is an array of transactions of the
\* collection and, while the table is mounted, sortedData is an array as
\* long as it; an empty collection gives an empty filtered and an empty
\* sorted result for every query.
C18_Totality ==
    /\ renderError = "none"
    /\ filteredTransactions \in DOMAIN heap
    /\ \A j \in 1..Len(Filtered) : Filtered[j] \in Pool
    /\ view.mounted =>
           /\ sortedData \in DOMAIN heap
           /\ Len(Sorted) = Len(Filtered)
    /\ Len(Data) = 0 =>
           /\ Len(Filtered) = 0
           /\ view.mounted => (Len(Sorted) = 0 /\ Len(view.rows) = 0)

\* The filter ran over a transaction whose date the engine cannot parse,
\* and the table sorted the result by date.
C18_Witness ==
    /\ renderError = "none"
    /\ view.mounted
    /\ ~QueryIsBlank
    /\ InSeq(Data, T4)
    /\ InSeq(Sorted, T4)
    /\ sortConfig.key = "date"

\* The filter and the sort ran over the empty collection.
C18_EmptyWitness ==
    /\ renderError = "none"
    /\ view.mounted
    /\ ~QueryIsBlank
    /\ Len(Data) = 0
    /\ Len(Sorted) = 0
    /\ view.emptyState.shown

-----------------------------------------------------------------------------
(* The context hooks called from any position of a component tree *)

HookInit == Init /\ heap[DataRef] = ExampleCollection

HookNext ==
    \/ \E path \in ProviderPaths : callUseSearch(path)
    \/ \E path \in ProviderPaths : callUseTabs(path)

HookSpec == HookInit /\ [][HookNext]_vars

\* The context a hook reads, and whether a provider of it encloses the call.
ContextOf(hook) == IF hook = "useSearch" THEN "SearchContext" ELSE "TabsContext"

Enclosed(call) ==
    \E i \in 1..Len(call.path) : call.path[i].context = ContextOf(call.hook)

\* C19 - A context hook called with no enclosing provider of its context
\* throws its "must be used within" error and returns nothing; called under
\* a provider it never throws and returns the value of the nearest one.
C19_HooksFailFast ==
    hookCall.hook # "none" =>
        IF Enclosed(hookCall)
        THEN /\ ~hookResult.threw
             /\ hookResult.value # Undefined
             /\ \E i \in 1..Len(hookCall.path) :
                    /\ hookCall.path[i].context = ContextOf(hookCall.hook)
                    /\ hookCall.path[i].value = hookResult.value
                    /\ \A j \in (i + 1)..Len(hookCall.path) :
                           hookCall.path[j].context # ContextOf(hookCall.hook)
        ELSE /\ hookResult.threw
             /\ hookResult.value = Undefined
             /\ hookResult.error =
                    IF hookCall.hook = "useSearch"
                    THEN "useSearch must be used within a SearchProvider"
                    ELSE "useTabs must be used within a TabsProvider"

\* useSearch was called by a component that sits under Tabs only.
C19_Witness ==
    /\ hookCall.hook = "useSearch"
    /\ Len(hookCall.path) = 1
    /\ hookCall.path[1].context = "TabsContext"
    /\ hookResult.threw

\* useTabs was called under Tabs and returned the active tab.
C19_InsideWitness ==
    /\ hookCall.hook = "useTabs"
    /\ Enclosed(hookCall)
    /\ ~hookResult.threw
    /\ hookResult.value = TabsValue("overview")

-----------------------------------------------------------------------------
(* The documented command-line tool *)

CliInit == Init /\ heap[DataRef] = ExampleCollection

CliNext ==
    \/ initExec
    \/ \E category \in Categories, amount \in Amounts, name \in Labels :
           recordAddExec(category, amount, name)
    \/ \E record_id \in 1..(MaxRecords + 1), category \in UpdateCategories,
          amount \in UpdateAmounts, subcategory \in Option(Labels) :
           recordUpdateExec(record_id, category, amount, subcategory)
    \/ \E ids_set \in SUBSET (1..MaxRecords) \ { { } } : recordDeleteByIds(ids_set)
    \/ \E category \in Categories : recordDeleteByCat(category)
    \/ \E name \in Labels : recordDeleteBySubcat(name)
    \/ \E name \in Labels : subcategoryAddExec(name)
    \/ \E name \in Labels : subcategoryDeleteExec(name)
    \/ \E old_name, new_name \in Labels : subcategoryRenameExec(old_name, new_name)

CliSpec == CliInit /\ [][CliNext]_vars

\* C20 - On an initialised tracker, after any sequence of subcategory add,
\* delete and rename commands, subcategories_by_name still maps
\* "miscellaneous" to the id it had after init.
C20_MiscellaneousProtected ==
    tracker_data.exists =>
        /\ contains_key(tracker_data.subcategories_by_name, "miscellaneous")
        /\ tracker_data.subcategories_by_name["miscellaneous"] =
               default_tracker_json.subcategories_by_name["miscellaneous"]

\* What the commands do keep: no command but a rename of the system
\* subcategory removes the key "miscellaneous" from subcategories_by_name.
C20_OnlyRenameRemoves ==
    [][ ( /\ tracker_data.exists
          /\ contains_key(tracker_data.subcategories_by_name, "miscellaneous")
          /\ ~contains_key(tracker_data'.subcategories_by_name, "miscellaneous") )
        => \E new_name \in Labels :
               subcategoryRenameExec("miscellaneous", new_name)
               \/ subcategoryRenameExec("Miscellaneous", new_name) ]_vars

\* `subcategory rename miscellaneous rent` returned Ok on an initialised
\* tracker.
C20_RenamedAway ==
    /\ tracker_data.exists
    /\ cliResult = Ok
    /\ ~contains_key(tracker_data.subcategories_by_name, "miscellaneous")
    /\ contains_key(tracker_data.subcategories_by_name, "rent")
    /\ tracker_data.subcategories_by_name["rent"] = 1

-----------------------------------------------------------------------------
(* C21 *)

\* C21 - Whenever the search box is collapsed the trimmed query is empty
\* and filteredTransactions is the full collection, which the mounted table
\* displays; an outside click collapses the box exactly when the query is
\* blank and changes neither the box nor the query otherwise.
C21_CollapsedImpliesNoFilter ==
    /\ [](~isExpanded =>
            /\ TrimTable[searchQuery] = ""
            /\ filteredTransactions = DataRef
            /\ view.mounted =>
                   /\ Len(view.rows) = Len(Data)
                   /\ \A i \in 1..Len(Data) : InSeq(view.rows, Data[i]))
    /\ [][ handleClickOutside =>
             /\ searchQuery' = searchQuery
             /\ isExpanded' = (TrimTable[searchQuery] # "") ]_vars

\* The box collapsed on an outside click while the query was a blank that
\* is not the empty string.
C21_Witness ==
    /\ ~isExpanded
    /\ searchQuery = " "
    /\ view.mounted
    /\ Len(Data) > 0

\* The box is open over a query that filters.
C21_OpenWitness ==
    /\ isExpanded
    /\ TrimTable[searchQuery] # ""
    /\ Len(Filtered) < Len(Data)

-----------------------------------------------------------------------------
(* C22 *)

\* C22 - A step of handleClose sets the query to "" and collapses the box
\* at once; after it isSearching is false, the banner is hidden,
\* filteredTransactions is the full collection, and sortConfig is what it
\* was.
C22_CloseResetsSearch ==
    [][ handleClose =>
          /\ searchQuery' = ""
          /\ ~isExpanded'
          /\ ~isSearchingOf(searchQuery')
          /\ filteredTransactions' = DataRef
          /\ view'.mounted => ~view'.banner.shown
          /\ sortConfig' = sortConfig ]_vars

\* The search was closed over a filtering query with a non-default sort.
C22_Witness ==
    /\ ~isExpanded
    /\ searchQuery = ""
    /\ view.mounted
    /\ sortConfig = [ key |-> "amount", order |-> "asc" ]
    /\ ~view.banner.shown
    /\ Len(Data) = MaxLen

-----------------------------------------------------------------------------
(* C23 *)

\* C23 - A header click changes only the sort state: the query, isSearching
\* and filteredTransactions stay as they were.  A query edit or a close
\* changes only the query: sortConfig stays as it was.
C23_Independence ==
    [][ /\ (\E key \in SortKeys : handleSort(key)) =>
               /\ searchQuery' = searchQuery
               /\ isSearchingOf(searchQuery') = isSearchingOf(searchQuery)
               /\ filteredTransactions' = filteredTransactions
               /\ isExpanded' = isExpanded
        /\ ((\E q \in Queries : setSearchQuery(q)) \/ handleClose) =>
               sortConfig' = sortConfig ]_vars

\* A sort chosen by header clicks is in force while a query filters.
C23_Witness ==
    /\ view.mounted
    /\ sortConfig = [ key |-> "remark", order |-> "asc" ]
    /\ searchQuery = "credit"
    /\ Len(Filtered) > 0
    /\ Len(Filtered) < Len(Data)

-----------------------------------------------------------------------------
(* C24 *)

\* How many times x occurs in seq.
Count(seq, x) == Cardinality({ i \in 1..Len(seq) : seq[i] = x })

\* C24 - While the table is mounted, sortedData holds exactly the
\* transactions of filteredTransactions, each as many times; the displayed
\* rows are as many as the match count of the banner, and the empty state
\* is shown exactly when the filtered set is empty.
C24_SortIsPermutation ==
    view.mounted =>
        /\ Len(Sorted) = Len(Filtered)
        /\ \A t \in Pool : Count(Sorted, t) = Count(Filtered, t)
        /\ \A t \in Pool : Count(Ids(Sorted), t.id) = Count(Ids(Filtered), t.id)
        /\ Len(view.rows) = Len(Filtered)
        /\ view.banner.shown => view.banner.count = Len(view.rows)
        /\ view.emptyState.shown <=> Len(Filtered) = 0
        /\ (Len(view.rows) = 0) <=> (Len(Filtered) = 0)

\* A filtered set with two rows that tie on the sort key was sorted while
\* the banner showed its count.
C24_Witness ==
    /\ view.mounted
    /\ sortConfig.key = "type"
    /\ view.banner.shown
    /\ Len(Filtered) >= 2
    /\ Len(Filtered) < Len(Data)
    /\ \E i, j \in 1..Len(Sorted) : i # j /\ Sorted[i].type = Sorted[j].type

-----------------------------------------------------------------------------
(* C25 *)

\* The pairs (q, q2) of queries where the normal form of q is not empty and
\* occurs in the normal form of q2.
NarrowingPairs ==
    { pair \in Queries \X Queries :
        /\ NormalForm[pair[1]] # ""
        /\ includes(NormalForm[pair[2]], NormalForm[pair[1]]) }

\* What the provider's filter returns for query q over the collection of
\* the current state.
FilterResult(q) ==
    LET prov == filterMemo(heap, q, { DataRef })
    IN  prov.heap[prov.ref]

\* C25 - Monotone narrowing: when the normal form of q is not empty and is
\* a substring of the normal form of q2, every transaction the filter
\* returns for q2 is also returned for q.
C25_MonotoneNarrowing ==
    \A pair \in NarrowingPairs :
        \A i \in 1..Len(FilterResult(pair[2])) :
            InSeq(FilterResult(pair[1]), FilterResult(pair[2])[i])

\* The query "credit", which extends "re", removed a row that "re" keeps.
C25_Witness ==
    /\ << "re", "credit" >> \in NarrowingPairs
    /\ searchQuery = "credit"
    /\ InSeq(Data, T2)
    /\ InSeq(FilterResult("re"), T2)
    /\ ~InSeq(Filtered, T2)
    /\ Len(Filtered) > 0

-----------------------------------------------------------------------------
(* C26 *)

Reverse(seq) == [ i \in 1..Len(seq) |-> seq[Len(seq) + 1 - i] ]

\* Two transactions of seq share a value on key.
HasTies(seq, key) ==
    \E i, j \in 1..Len(seq) : i < j /\ ValueEq(key, seq[i], seq[j])

\* C26 - A click on the active header: when no two transactions of the
\* filtered set share a value on the key, the new row sequence is the
\* reverse of the one displayed before; when some do, the rows that tie
\* stand in filtered-input order after the click as before it, so the new
\* sequence is not the reverse.
C26_ToggleVersusReversal ==
    [][ (view.mounted /\ handleSort(sortConfig.key)) =>
          LET key == sortConfig.key
          IN  /\ sortConfig'.key = key
              /\ sortConfig'.order # sortConfig.order
              /\ ~HasTies(Filtered, key) => Sorted' = Reverse(Sorted)
              /\ HasTies(Filtered, key) => Sorted' # Reverse(Sorted)
              /\ \A i, j \in 1..Len(Filtered) :
                     (i < j /\ ValueEq(key, Filtered[i], Filtered[j])) =>
                         /\ PosIn(Sorted, Filtered[i]) < PosIn(Sorted, Filtered[j])
                         /\ PosIn(Sorted', Filtered[i]) < PosIn(Sorted', Filtered[j])
      ]_vars

\* The active header was clicked over three rows with distinct remarks.
C26_Witness ==
    /\ view.mounted
    /\ sortConfig = [ key |-> "remark", order |-> "asc" ]
    /\ Len(Filtered) = MaxLen
    /\ ~HasTies(Filtered, "remark")

\* The active header was clicked over rows of which two tie on the type.
C26_TieWitness ==
    /\ view.mounted
    /\ sortConfig = [ key |-> "type", order |-> "asc" ]
    /\ Len(Filtered) = MaxLen
    /\ HasTies(Filtered, "type")

-----------------------------------------------------------------------------
(* AnimatedTerminal on the landing page *)

TerminalInit == Init /\ heap[DataRef] = ExampleCollection

TerminalNext ==
    \/ \E strict \in BOOLEAN : mountTerminal(strict)
    \/ \E run \in terminal.runs : timerFires(run)

TerminalSpec == TerminalInit /\ [][TerminalNext]_vars

\* Every timer eventually fires.
TerminalFairSpec ==
    TerminalSpec /\ WF_vars(TerminalNext)

-----------------------------------------------------------------------------
(* C27, C28 *)

\* The lines one step appends: its command line, its output lines, a blank.
StepLines(step) ==
    << commandLine(TERMINAL_STEPS[step + 1].command) >>
    \o [ k \in 1..Len(TERMINAL_STEPS[step + 1].output) |-> outputLine(step, k) ]
    \o << blankLine >>

\* The lines of the steps 0 .. n-1, in order.
RECURSIVE Transcript(_)
Transcript(n) == IF n = 0 THEN << >> ELSE Transcript(n - 1) \o StepLines(n - 1)

IsPrefix(a, b) == Len(a) <= Len(b) /\ a = SubSeq(b, 1, Len(a))

\* The runs whose id is the current one.
ValidRuns == { run \in terminal.runs : run.myId = terminal.animationIdRef }

\* C27 - Run invalidation: at most one run carries the current animation
\* id, and it is the one the latest effect execution started; a timer that
\* fires for a run with an older id ends that run and changes none of
\* lines, currentCommand, isTyping and stepIndex; so lines is always a
\* prefix of the one transcript of the steps, no line twice and none out of
\* place, also after the effect ran twice in a row at mount.
C27_RunInvalidation ==
    /\ [](/\ Cardinality(ValidRuns) <= 1
          /\ \A run \in terminal.runs : run.myId <= terminal.animationIdRef
          /\ \A run \in ValidRuns : run.step = terminal.stepIndex
          /\ IsPrefix(terminal.lines, Transcript(Len(TERMINAL_STEPS))))
    /\ [][ \A run \in terminal.runs :
             (run.myId # terminal.animationIdRef /\ timerFires(run)) =>
                 /\ terminal'.lines = terminal.lines
                 /\ terminal'.currentCommand = terminal.currentCommand
                 /\ terminal'.isTyping = terminal.isTyping
                 /\ terminal'.stepIndex = terminal.stepIndex
                 /\ run \notin terminal'.runs ]_vars

\* The effect ran twice at mount; the first run has met its validity check
\* and is gone, and the second has shown the whole first step once.
C27_Witness ==
    /\ terminal.mounted
    /\ terminal.animationIdRef = 2
    /\ terminal.stepIndex = 0
    /\ Cardinality(terminal.runs) = 1
    /\ terminal.lines = StepLines(0)

\* Two runs are pending, the older one superseded.
C27_StaleWitness ==
    /\ terminal.mounted
    /\ Cardinality(terminal.runs) = 2
    /\ Cardinality(ValidRuns) = 1

\* C28 - Progress and looping: stepIndex stays in 0..TERMINAL_STEPS.length;
\* the lines shown are those of the finished steps in order followed by
\* the first lines of the current step, its command line first; and, timers
\* firing, every step is eventually completed and followed by the next,
\* and after the last one the terminal is cleared and is back at step 0.
\* (Stated for the runs the model's bound on the animation id leaves room
\* for.)
C28_ProgressAndLooping ==
    /\ [](/\ terminal.stepIndex \in 0..Len(TERMINAL_STEPS)
          /\ IsPrefix(Transcript(terminal.stepIndex), terminal.lines)
          /\ IsPrefix(terminal.lines,
                      Transcript(IF terminal.stepIndex < Len(TERMINAL_STEPS)
                                 THEN terminal.stepIndex + 1
                                 ELSE terminal.stepIndex)))
    /\ \A s \in 0..(Len(TERMINAL_STEPS) - 1) :
           (/\ terminal.mounted
            /\ terminal.stepIndex = s
            /\ terminal.animationIdRef < MaxAnimationId)
           ~> (terminal.stepIndex = s + 1 /\ terminal.lines = Transcript(s + 1))
    /\ (/\ terminal.mounted
        /\ terminal.stepIndex = Len(TERMINAL_STEPS)
        /\ terminal.animationIdRef < MaxAnimationId)
       ~> (terminal.stepIndex = 0 /\ terminal.lines = << >>)

\* The terminal was cleared after the last step and is typing the first
\* command again.
C28_Witness ==
    /\ terminal.mounted
    /\ terminal.stepIndex = 0
    /\ terminal.animationIdRef > Len(TERMINAL_STEPS)
    /\ terminal.lines = << >>
    /\ terminal.isTyping
    /\ Len(terminal.currentCommand) > 0

-----------------------------------------------------------------------------
(* C29 *)

\* The lower-case names the commands can store, and the ids they can give.
LowerNames == { LowerOf[name] : name \in Labels }
SubcategoryIds == 1..MaxSubcategoryId

\* name_title of every lower-case name, evaluated once.
TitleOfLower == [ n \in LowerNames |-> name_title(n) ]

\* to_lowercase of every name subcategories_by_id can hold, evaluated once.
LowerOfStored ==
    [ stored \in { TitleOfLower[n] : n \in LowerNames } \cup LowerNames |->
        to_lowercase(stored) ]

\* Both maps have as many entries, and no id has reached next_subcategory_id.
MapsSameSizeAndIdsBelowNext ==
    /\ Cardinality(DOMAIN tracker_data.subcategories_by_name) =
           Cardinality(DOMAIN tracker_data.subcategories_by_id)
    /\ \A i \in DOMAIN tracker_data.subcategories_by_id :
           i < tracker_data.next_subcategory_id
    /\ \A n \in DOMAIN tracker_data.subcategories_by_name :
           tracker_data.subcategories_by_name[n] < tracker_data.next_subcategory_id

\* C29 - In every state of an initialised tracker, subcategories_by_name
\* maps the lower-case name n to id i exactly when subcategories_by_id maps
\* i to the Title-Case form of n; both maps have as many entries, and every
\* id in them is smaller than next_subcategory_id.
C29_MapsInSync ==
    tracker_data.exists =>
        /\ \A n \in LowerNames, i \in SubcategoryIds :
               ( /\ contains_key(tracker_data.subcategories_by_name, n)
                 /\ tracker_data.subcategories_by_name[n] = i )
               <=>
               ( /\ contains_key(tracker_data.subcategories_by_id, i)
                 /\ tracker_data.subcategories_by_id[i] = TitleOfLower[n] )
        /\ MapsSameSizeAndIdsBelowNext

\* What the commands do keep: the two maps mirror each other up to the
\* case of the stored name.
C29_MapsInSyncUpToCase ==
    tracker_data.exists =>
        /\ \A n \in LowerNames, i \in SubcategoryIds :
               ( /\ contains_key(tracker_data.subcategories_by_name, n)
                 /\ tracker_data.subcategories_by_name[n] = i )
               <=>
               ( /\ contains_key(tracker_data.subcategories_by_id, i)
                 /\ LowerOfStored[tracker_data.subcategories_by_id[i]] = n )
        /\ MapsSameSizeAndIdsBelowNext

\* A tracker as `fintrack init` wrote it, with one subcategory added: the
\* added name is stored in Title Case, the system one in lower case.
C29_LowerCaseSystemName ==
    /\ tracker_data.exists
    /\ contains_key(tracker_data.subcategories_by_id, 1)
    /\ tracker_data.subcategories_by_id[1] = "miscellaneous"
    /\ contains_key(tracker_data.subcategories_by_id, 2)
    /\ tracker_data.subcategories_by_id[2] = "Rent"
    /\ tracker_data.subcategories_by_name["rent"] = 2

-----------------------------------------------------------------------------
(* C30 *)

\* Every stored record refers to a subcategory that subcategories_by_id has.
RecordsReferToSubcategories ==
    tracker_data.exists =>
        \A i \in 1..Len(tracker_data.records) :
            contains_key(tracker_data.subcategories_by_id,
                         tracker_data.records[i].subcategory)

\* Some record refers to the subcategory stored under the lower-case name n.
Referenced(n) ==
    /\ contains_key(tracker_data.subcategories_by_name, n)
    /\ \E i \in 1..Len(tracker_data.records) :
           tracker_data.records[i].subcategory = tracker_data.subcategories_by_name[n]

\* add and update with a subcategory name that subcategories_by_name does
\* not have return an error and leave the tracker as it was.
UnknownSubcategoryRejected ==
    \A name \in Labels \ DOMAIN tracker_data.subcategories_by_name :
        /\ ~( /\ tracker_data' = tracker_data
              /\ cliResult' \in { "SubcategoryNotFound", "AmountTooSmall" } )
           => \A category \in Categories, amount \in Amounts :
                  ~recordAddExec(category, amount, name)
        /\ ~( /\ tracker_data' = tracker_data
              /\ cliResult' = "SubcategoryNotFound" )
           => \A record_id \in 1..(MaxRecords + 1), category \in UpdateCategories,
                 amount \in UpdateAmounts :
                  ~recordUpdateExec(record_id, category, amount, << name >>)

\* C30 as stated - Every stored record's subcategory id is a key of
\* subcategories_by_id; add and update reject an unknown subcategory name;
\* subcategory delete of a subcategory that a record refers to returns
\* SubcategoryHasRecords and leaves the tracker unchanged.
C30_IntegrityAsStated ==
    /\ []RecordsReferToSubcategories
    /\ [][ tracker_data.exists =>
           /\ UnknownSubcategoryRejected
           /\ \A name \in Labels :
                  (Referenced(LowerOf[name]) /\ subcategoryDeleteExec(name)) =>
                      /\ tracker_data' = tracker_data
                      /\ cliResult' = "SubcategoryHasRecords" ]_vars

\* C30 - Every stored record's subcategory id is a key of
\* subcategories_by_id; add and update reject an unknown subcategory name;
\* subcategory delete of a subcategory that a record refers to is refused
\* and leaves the tracker unchanged: with CannotDeleteMiscellaneous for the
\* system subcategory, with SubcategoryHasRecords for any other.
C30_ReferentialIntegrity ==
    /\ []RecordsReferToSubcategories
    /\ [][ tracker_data.exists =>
           /\ UnknownSubcategoryRejected
           /\ \A name \in Labels :
                  (Referenced(LowerOf[name]) /\ subcategoryDeleteExec(name)) =>
                      /\ tracker_data' = tracker_data
                      /\ cliResult' = IF LowerOf[name] = "miscellaneous"
                                      THEN "CannotDeleteMiscellaneous"
                                      ELSE "SubcategoryHasRecords" ]_vars

\* `subcategory delete rent` was refused while a record refers to rent.
C30_Witness ==
    /\ tracker_data.exists
    /\ cliResult = "SubcategoryHasRecords"
    /\ Referenced("rent")
    /\ Len(tracker_data.records) = MaxRecords

====
